---- MODULE Spec2Model ----
(***************************************************************************)
(* KMCrayfish: distributed k-mer counting.                                 *)
(*                                                                         *)
(*   kmer.rs     bit-packed k-mer codec (KMeru64<A, N>)                    *)
(*   main.rs     root-dispatch variant                                     *)
(*   main_io.rs  I/O-parallel variant                                      *)
(*                                                                         *)
(* A u64 is the sequence of its 64 bits, least significant first, so that  *)
(* shifts, masks and wrapping additions are computed bit by bit.  A byte   *)
(* of a read is a one-character string; an Option is a tuple of length     *)
(* zero (None) or one (Some).                                              *)
(***************************************************************************)
EXTENDS Integers, Sequences, FiniteSets, Bags, TLC

VARIABLES
    \* --- codec run (kmer.rs): one KMeru64<DNA, kN> value and the last call on it
    kN,         \* the const generic N of the k-mer type
    km,         \* data of the live k-mer
    kcall,      \* last call: [op, self, arg, ret]
    \* --- extractor run: the loop over one read (main.rs 48-87, main_io.rs 169-205)
    xread,      \* the read
    xpc,        \* "check" before the length test, "loop" in the while, "done"
    next_pos,
    start,
    current_kmer,
    xout,       \* the k-mers pushed so far: [at |-> window start, data |-> k.data]
    \* --- SeqReader run (main.rs 112-139, main_io.rs 88-116)
    lines,      \* the line stream
    lpos,       \* lines taken from the stream so far
    spc,        \* "idle" between calls of next(), "loop" inside one, "end"
    skip_q,     \* the local of next()
    yielded,    \* the lines returned so far
    \* --- the drivers (inner_main of main.rs and of main_io.rs)
    variant,    \* "root" (main.rs) or "io" (main_io.rs)
    world_size,
    overflow_checks,  \* whether the build checks integer overflow
    reads,      \* what the SeqReader yields from the input file
    pc,         \* per place: position of inner_main
    l_num,      \* per place: reads taken by the for loop
    buffer,     \* main.rs: the chunk being filled at the root
    next_place, \* main.rs
    kmers,      \* main_io.rs, per place: the buckets, one per destination
    count_bin,  \* per place: the k-mers of the CountBin
    tasks,      \* activities spawned and not yet run, a bag
    hist,       \* per place: the histogram of the scan
    printed,    \* per place: what info! printed at the end, None before
    sent,       \* main.rs: the indices of the reads dispatched, in order
    proc        \* main_io.rs: <<place, l_num>> of each read a place took as its own

codec_vars == <<kN, km, kcall>>

extract_vars == <<xread, xpc, next_pos, start, current_kmer, xout>>

seq_vars == <<lines, lpos, spc, skip_q, yielded>>

dist_vars == <<variant, world_size, overflow_checks, reads, pc, l_num, buffer,
               next_place, kmers, count_bin, tasks, hist, printed, sent, proc>>

vars == <<codec_vars, extract_vars, seq_vars, dist_vars>>

\* ------------------------------------------------------------------ bounds
\* kmer length of the two drivers (KMER_LEN is 31 in the source; the codec is
\* generic in N, the model runs the drivers with a short k-mer)
KMER_LEN == 2
\* largest N the codec is exercised with on its own
MaxCodecLen == 4
\* longest read the extractor is run on
MaxReadLen == 5
\* longest line stream the SeqReader is run on
MaxLines == 4
\* most places a run of a driver has
MaxPlaces == 2
\* most reads the input file of a driver holds
MaxReads == 3
\* chunk_size of the drivers (40960 in the source)
CHUNK_SIZE == 2
\* initial length of the histogram (1024 in the source)
HIST_LEN == 2

\* ------------------------------------------------------- u64 primitives
\* Option<T>: None is the empty tuple, Some(x) the one-element tuple
None == <<>>

Some(x) == <<x>>

unwrap(o) == o[1]

\* size_of::<u64>() * 8
data_len == 64

\* a u64 is the sequence of its 64 bits, least significant first: bit b of the
\* word is x[b + 1]
BitPos == 1 .. data_len

\* a function on 1 .. n written out as the tuple it is equal to
Tup(f) == f \o <<>>

\* F(e) with e evaluated once, whatever the number of times F uses it; the
\* steps of a computation are chained with it
Bind(e, F(_)) == CHOOSE r \in {F(x) : x \in {e}} : TRUE

Zeros(n) == Tup([i \in 1 .. n |-> 0])

U64_ZERO == Zeros(data_len)

U64_MAX == Tup([i \in BitPos |-> 1])

\* `n as u64` for a small non-negative n
U64Of(n) == Tup([i \in BitPos |-> IF i <= 30 THEN (n \div (2 ^ (i - 1))) % 2 ELSE 0])

\* x << n and x >> n, 0 <= n < 64
Shl(x, n) == Zeros(n) \o SubSeq(x, 1, data_len - n)

Shr(x, n) == SubSeq(x, n + 1, data_len) \o Zeros(n)

BitNot(x) == Tup([i \in BitPos |-> 1 - x[i]])

BitAnd(x, y) == Tup([i \in BitPos |-> x[i] * y[i]])

BitOr(x, y) == Tup([i \in BitPos |-> IF x[i] + y[i] > 0 THEN 1 ELSE 0])

BitXor(x, y) == Tup([i \in BitPos |-> (x[i] + y[i]) % 2])

\* u64 Ord: self > other
Gt(x, y) ==
    /\ x # y
    /\ \E i \in BitPos : /\ x[i] > y[i]
                         /\ \A j \in BitPos : j > i => x[j] = y[j]

\* the four bits of x from bit o on, as a number
Nibble(x, o) == (x[o + 1] + 2 * x[o + 2]) + (4 * x[o + 3] + 8 * x[o + 4])

\* the 16-bit limb l (0 = least significant) of x, as a number
Limb(x, l) ==
    LET o == 16 * l
    IN  (Nibble(x, o) + 16 * Nibble(x, o + 4))
        + (256 * Nibble(x, o + 8) + 4096 * Nibble(x, o + 12))

\* a + b limb by limb; each entry is the limb sum with the carry into it, so
\* the carry out of the word is the part of the last entry above 16 bits
add_limbs(a, b) ==
    Bind(Limb(a, 0) + Limb(b, 0), LAMBDA s0 :
    Bind(Limb(a, 1) + Limb(b, 1) + (s0 \div 65536), LAMBDA s1 :
    Bind(Limb(a, 2) + Limb(b, 2) + (s1 \div 65536), LAMBDA s2 :
    Bind(Limb(a, 3) + Limb(b, 3) + (s2 \div 65536), LAMBDA s3 :
        <<s0, s1, s2, s3>>))))

\* u64::wrapping_add, and a + b in a build without overflow checks
wrapping_add(a, b) ==
    Bind(add_limbs(a, b), LAMBDA s :
        Tup([i \in BitPos |-> (s[((i - 1) \div 16) + 1] \div (2 ^ ((i - 1) % 16))) % 2]))

\* whether a + b exceeds u64::MAX (a + b panics in a build with overflow checks)
add_overflows(a, b) == add_limbs(a, b)[4] >= 65536

\* u64::rotate_left
rotate_left(x, n) == SubSeq(x, data_len - n + 1, data_len) \o SubSeq(x, 1, data_len - n)

\* x % m for a small m >= 1
rem(x, m) ==
    ((((((Limb(x, 3) % m) * 65536 + Limb(x, 2)) % m) * 65536 + Limb(x, 1)) % m)
        * 65536 + Limb(x, 0)) % m

\* the u64 whose little-endian bytes are b[1] .. b[8]
U64OfBytes(b) == Tup([i \in BitPos |-> (b[((i - 1) \div 8) + 1] \div (2 ^ ((i - 1) % 8))) % 2])

\* ---------------------------------------------------------------- alphabet
UNIT_LEN == 2

\* to_unit that takes a byte outside the alphabet for an A
to_unit_any(base) ==
    CASE base = "A" -> Some(0)
      [] base = "T" -> Some(3)
      [] base = "G" -> Some(2)
      [] base = "C" -> Some(1)
      [] OTHER -> Some(0)

to_unit(base) ==
    CASE base = "A" -> Some(0)
      [] base = "T" -> Some(3)
      [] base = "G" -> Some(2)
      [] base = "C" -> Some(1)
      [] OTHER -> None

to_u8(unit) ==
    CASE unit = 0 -> Some("A")
      [] unit = 3 -> Some("T")
      [] unit = 2 -> Some("G")
      [] unit = 1 -> Some("C")
      [] OTHER -> None

\* ------------------------------------------------------------------- ssse3
\* a __m128i is the sequence of its 128 bits, least significant first; with
\* j = i - 1 the 0-based bit, byte j \div 8 holds it at position j % 8 and the
\* 16-bit lane j \div 16 at position j % 16
M128Pos == 1 .. 128

mm_set_epi64x(e1, e0) == e0 \o e1

\* _mm_set_epi8 lists byte e15 first, _mm_setr_epi8 lists byte e0 first
mm_set_epi8(t) ==
    Tup([i \in M128Pos |-> (t[16 - ((i - 1) \div 8)] \div (2 ^ ((i - 1) % 8))) % 2])

mm_setr_epi8(t) ==
    Tup([i \in M128Pos |-> (t[((i - 1) \div 8) + 1] \div (2 ^ ((i - 1) % 8))) % 2])

\* byte n of the result is 0 when bit 7 of byte n of b is set, and otherwise
\* the byte of a selected by the low four bits of byte n of b
mm_shuffle_epi8(a, b) ==
    Tup([i \in M128Pos |->
        LET o == 8 * ((i - 1) \div 8)
        IN  IF b[o + 8] = 1 THEN 0
            ELSE a[8 * (b[o + 1] + 2 * b[o + 2] + 4 * b[o + 3] + 8 * b[o + 4])
                   + ((i - 1) % 8) + 1]])

mm_and_si128(a, b) == Tup([i \in M128Pos |-> a[i] * b[i]])

mm_andnot_si128(a, b) == Tup([i \in M128Pos |-> (1 - a[i]) * b[i]])

mm_or_si128(a, b) == Tup([i \in M128Pos |-> IF a[i] + b[i] > 0 THEN 1 ELSE 0])

\* logical right shift of each 16-bit lane
mm_srli_epi16(a, imm) ==
    Tup([i \in M128Pos |-> IF ((i - 1) % 16) + imm < 16 THEN a[i + imm] ELSE 0])

mm_extract_epi64(a, imm) == SubSeq(a, 64 * imm + 1, 64 * imm + 64)

reverse_m128i_pack_2(v0) ==
    Bind(mm_shuffle_epi8(v0,
             mm_set_epi8(<<0, 1, 2, 3, 4, 5, 6, 7, 8, 9, 10, 11, 12, 13, 14, 15>>)),
         LAMBDA v :
    Bind(mm_set_epi8(<<15, 15, 15, 15, 15, 15, 15, 15,
                       15, 15, 15, 15, 15, 15, 15, 15>>), LAMBDA lo_mask :
    Bind(mm_and_si128(lo_mask, v), LAMBDA lo :
    Bind(mm_srli_epi16(mm_andnot_si128(lo_mask, v), 4), LAMBDA hi :
    Bind(mm_shuffle_epi8(
             mm_setr_epi8(<<0, 64, 128, 192, 16, 80, 144, 208,
                            32, 96, 160, 224, 48, 112, 176, 240>>), lo), LAMBDA slo :
    Bind(mm_shuffle_epi8(
             mm_setr_epi8(<<0, 4, 8, 12, 1, 5, 9, 13,
                            2, 6, 10, 14, 3, 7, 11, 15>>), hi), LAMBDA shi :
        mm_or_si128(slo, shi)))))))

reverse_u64_pack_2(data) ==
    mm_extract_epi64(reverse_m128i_pack_2(mm_set_epi64x(data, data)), 1)

\* ----------------------------------------------------------------- KMeru64
used_bits(N) == UNIT_LEN * N

unused_bits(N) == data_len - used_bits(N)

set_unit(data, at, unit) ==
    Bind(Shl(U64Of(unit), data_len - UNIT_LEN * (at + 1)), LAMBDA u :
        Bind(data, LAMBDA d : BitOr(d, u)))

get_unit(data, at) ==
    LET ret == BitAnd(Shr(data, data_len - UNIT_LEN * (at + 1)),
                      U64Of(2 ^ UNIT_LEN - 1))
    IN  ret[1] + 2 * ret[2]

\* the loop of from_bytes over the first N bytes of s, from byte i (0-based)
RECURSIVE from_bytes_loop(_, _, _, _)
from_bytes_loop(s, N, i, data) ==
    IF i = N THEN Some(data)
    ELSE IF to_unit(s[i + 1]) = None THEN None
    ELSE Bind(set_unit(data, i, unwrap(to_unit(s[i + 1]))), LAMBDA d :
             from_bytes_loop(s, N, i + 1, d))

\* from_bytes without `kmer.data >>= Self::unused_bits()`
from_bytes_unshifted(s, N) ==
    IF Len(s) < N THEN None ELSE from_bytes_loop(s, N, 0, U64_ZERO)

from_bytes(s, N) ==
    IF Len(s) < N THEN None
    ELSE Bind(from_bytes_loop(s, N, 0, U64_ZERO), LAMBDA kmer :
             IF kmer = None THEN None ELSE Some(Shr(unwrap(kmer), unused_bits(N))))

\* extend without `next.data &= (u64::MAX) >> Self::unused_bits()`
extend_nomask(self, base, N) ==
    IF to_unit(base) = None THEN None
    ELSE Some(BitOr(Shl(self, UNIT_LEN), U64Of(unwrap(to_unit(base)))))

\* extend that puts the unit over the last base instead of shifting it in
extend_noshift(self, base, N) ==
    IF to_unit(base) = None THEN None
    ELSE Some(BitAnd(BitOr(self, U64Of(unwrap(to_unit(base)))),
                     Shr(U64_MAX, unused_bits(N))))

extend(self, base, N) ==
    IF to_unit(base) = None THEN None
    ELSE Bind(Shl(self, UNIT_LEN), LAMBDA shifted :
         Bind(BitOr(shifted, U64Of(unwrap(to_unit(base)))), LAMBDA data :
             Some(BitAnd(data, Shr(U64_MAX, unused_bits(N))))))

\* complement without the mask of the used bits
complement_nomask(self, N) == BitNot(self)

complement(self, N) == BitAnd(BitNot(self), Shr(U64_MAX, unused_bits(N)))

\* a reversal of the used bits one by one instead of unit by unit
reverse_bits(self, N) ==
    Tup([i \in BitPos |-> IF i <= used_bits(N) THEN self[used_bits(N) + 1 - i] ELSE 0])

reverse(self, N) == Shr(reverse_u64_pack_2(self), unused_bits(N))

\* get_canonical that keeps the strand it is given
get_canonical_self(self, N) == self

\* get_canonical with the comparison the other way round
get_canonical_max(self, N) ==
    Bind(complement(reverse(self, N), N), LAMBDA rc :
        IF Gt(rc, self) THEN rc ELSE self)

get_canonical(self, N) ==
    Bind(complement(reverse(self, N), N), LAMBDA rc :
        IF Gt(self, rc) THEN rc ELSE self)

RECURSIVE to_string_loop(_, _)
to_string_loop(self, i) ==
    IF i = data_len \div UNIT_LEN THEN <<>>
    ELSE <<unwrap(to_u8(get_unit(self, i)))>> \o to_string_loop(self, i + 1)

to_string(self, N) == to_string_loop(self, unused_bits(N) \div UNIT_LEN)

\* ----------------------------------------------- partitioner of main_io.rs
\* the seven mixing steps on wrapped values, and whether any of the additions
\* exceeds u64::MAX
mix(data) ==
    Bind(BitNot(data), LAMBDA a1 :
    Bind(Shl(data, 21), LAMBDA b1 :
    Bind(wrapping_add(a1, b1), LAMBDA k1 :
    Bind(BitXor(k1, Shr(k1, 24)), LAMBDA k2 :
    Bind(wrapping_add(k2, Shl(k2, 3)), LAMBDA a3 :
    Bind(wrapping_add(a3, Shl(k2, 8)), LAMBDA k3 :
    Bind(BitXor(k3, Shr(k3, 14)), LAMBDA k4 :
    Bind(wrapping_add(k4, Shl(k4, 2)), LAMBDA a5 :
    Bind(wrapping_add(a5, Shl(k4, 4)), LAMBDA k5 :
    Bind(BitXor(k5, Shr(k5, 28)), LAMBDA k6 :
    Bind(wrapping_add(k6, Shl(k6, 31)), LAMBDA k7 :
        [key |-> k7,
         overflow |-> \/ add_overflows(a1, b1)
                      \/ add_overflows(k2, Shl(k2, 3))
                      \/ add_overflows(a3, Shl(k2, 8))
                      \/ add_overflows(k4, Shl(k4, 2))
                      \/ add_overflows(a5, Shl(k4, 4))
                      \/ add_overflows(k6, Shl(k6, 31))])))))))))))

\* None is the panic of `+` on overflow in a build with overflow checks;
\* ws is place::world_size()
get_partition_io(data, ws, checks) ==
    Bind(mix(data), LAMBDA m :
        IF checks /\ m.overflow THEN None ELSE Some(rem(m.key, ws)))

\* -------------------------------------------------- partitioner of main.rs
\* DefaultHasher is SipHash-1-3 with a zero key; one SipRound on <<v0, v1, v2, v3>>
sip_round(v) ==
    Bind(wrapping_add(v[1], v[2]), LAMBDA a0 :
    Bind(BitXor(rotate_left(v[2], 13), a0), LAMBDA a1 :
    Bind(rotate_left(a0, 32), LAMBDA b0 :
    Bind(wrapping_add(v[3], v[4]), LAMBDA a2 :
    Bind(BitXor(rotate_left(v[4], 16), a2), LAMBDA a3 :
    Bind(wrapping_add(b0, a3), LAMBDA c0 :
    Bind(BitXor(rotate_left(a3, 21), c0), LAMBDA c3 :
    Bind(wrapping_add(a2, a1), LAMBDA c2 :
    Bind(BitXor(rotate_left(a1, 17), c2), LAMBDA c1 :
        <<c0, c1, rotate_left(c2, 32), c3>>)))))))))

\* kmer.hash(&mut hasher); hasher.finish(): the word is written as one 8-byte
\* block, then the length block 8 << 56 and the three finalisation rounds
default_hasher(data) ==
    Bind(<<U64OfBytes(<<117, 101, 115, 112, 101, 109, 111, 115>>),
           U64OfBytes(<<109, 111, 100, 110, 97, 114, 111, 100>>),
           U64OfBytes(<<97, 114, 101, 110, 101, 103, 121, 108>>),
           U64OfBytes(<<115, 101, 116, 121, 98, 100, 101, 116>>),
           U64OfBytes(<<0, 0, 0, 0, 0, 0, 0, 8>>)>>, LAMBDA k :
    Bind(sip_round(<<k[1], k[2], k[3], BitXor(k[4], data)>>), LAMBDA w1 :
    Bind(sip_round(<<BitXor(w1[1], data), w1[2], w1[3], BitXor(w1[4], k[5])>>), LAMBDA w2 :
    Bind(sip_round(<<BitXor(w2[1], k[5]), w2[2], BitXor(w2[3], U64Of(255)), w2[4]>>),
         LAMBDA d1 :
    Bind(sip_round(d1), LAMBDA d2 :
    Bind(sip_round(d2), LAMBDA d3 :
        BitXor(BitXor(d3[1], d3[2]), BitXor(d3[3], d3[4]))))))))

get_partition_root(data, ws) == Some(rem(default_hasher(data), ws))

\* ------------------------------------------------------------- input bytes
Bases == {"A", "C", "G", "T"}

\* the bytes a read is made of: the four bases and one byte outside the alphabet
ReadBytes == Bases \cup {"N"}

\* byte strings of length lo..hi
ByteStrings(lo, hi) == UNION {[1 .. n -> ReadBytes] : n \in lo .. hi}

\* --------------------------------------------------------------- extractor
\* every right-aligned k-mer of the drivers' length
KMers == {unwrap(from_bytes(s, KMER_LEN)) : s \in [1 .. KMER_LEN -> Bases]}

\* k.get_canonical() for the drivers' KMer type, tabulated
canonical_of == [k \in KMers |-> get_canonical(k, KMER_LEN)]

\* an iteration that moves on by a whole k-mer after a failed parse
extract_step_skip(read, st) ==
    IF st.start
    THEN LET r == from_bytes(SubSeq(read, st.next_pos + 1, Len(read)), KMER_LEN)
         IN  IF r # None
             THEN [next_pos |-> st.next_pos + KMER_LEN, start |-> FALSE,
                   current_kmer |-> unwrap(r), emit |-> Some(unwrap(r))]
             ELSE [next_pos |-> st.next_pos + KMER_LEN, start |-> TRUE,
                   current_kmer |-> st.current_kmer, emit |-> None]
    ELSE LET r == extend(st.current_kmer, read[st.next_pos + 1], KMER_LEN)
         IN  IF r # None
             THEN [next_pos |-> st.next_pos + 1, start |-> FALSE,
                   current_kmer |-> unwrap(r), emit |-> Some(unwrap(r))]
             ELSE [next_pos |-> st.next_pos + 1, start |-> TRUE,
                   current_kmer |-> st.current_kmer, emit |-> None]

\* an iteration whose RUN branch stays on the base that extend refused
extract_step_stay(read, st) ==
    IF st.start
    THEN LET r == from_bytes(SubSeq(read, st.next_pos + 1, Len(read)), KMER_LEN)
         IN  IF r # None
             THEN LET k == canonical_of[unwrap(r)]
                  IN  [next_pos |-> st.next_pos + KMER_LEN, start |-> FALSE,
                       current_kmer |-> k, emit |-> Some(k)]
             ELSE [next_pos |-> st.next_pos + 1, start |-> TRUE,
                   current_kmer |-> st.current_kmer, emit |-> None]
    ELSE LET r == extend(st.current_kmer, read[st.next_pos + 1], KMER_LEN)
         IN  IF r # None
             THEN LET k == canonical_of[unwrap(r)]
                  IN  [next_pos |-> st.next_pos + 1, start |-> FALSE,
                       current_kmer |-> k, emit |-> Some(k)]
             ELSE [next_pos |-> st.next_pos, start |-> TRUE,
                   current_kmer |-> st.current_kmer, emit |-> None]

\* One iteration of `while next_pos < end` (main.rs 58-86, main_io.rs 177-205)
\* on a state st = [next_pos, start, current_kmer]; emit is Some(k.data) when
\* the iteration pushes a k-mer.
extract_step(read, st) ==
    IF st.start
    THEN Bind(from_bytes(SubSeq(read, st.next_pos + 1, Len(read)), KMER_LEN), LAMBDA r :
             IF r # None
             THEN Bind(canonical_of[unwrap(r)], LAMBDA k :
                      [next_pos |-> st.next_pos + KMER_LEN, start |-> FALSE,
                       current_kmer |-> k, emit |-> Some(k)])
             ELSE [next_pos |-> st.next_pos + 1, start |-> TRUE,
                   current_kmer |-> st.current_kmer, emit |-> None])
    ELSE Bind(extend(st.current_kmer, read[st.next_pos + 1], KMER_LEN), LAMBDA r :
             IF r # None
             THEN Bind(canonical_of[unwrap(r)], LAMBDA k :
                      [next_pos |-> st.next_pos + 1, start |-> FALSE,
                       current_kmer |-> k, emit |-> Some(k)])
             ELSE [next_pos |-> st.next_pos + 1, start |-> TRUE,
                   current_kmer |-> st.current_kmer, emit |-> None])

\* the state a read's loop starts in: KMer::new(0), start, position 0
extract_start == [next_pos |-> 0, start |-> TRUE, current_kmer |-> U64_ZERO]

\* the while loop from state st: the k-mers pushed, in order
RECURSIVE extract_loop(_, _)
extract_loop(read, st) ==
    IF st.next_pos < Len(read)
    THEN LET n == extract_step(read, st)
         IN  n.emit \o extract_loop(read, [next_pos |-> n.next_pos, start |-> n.start,
                                           current_kmer |-> n.current_kmer])
    ELSE <<>>

\* the body of `for read in reads`: a read shorter than k is dropped
read_kmers(read) ==
    IF Len(read) < KMER_LEN THEN <<>> ELSE extract_loop(read, extract_start)

\* ----------------------------------------------------------- extractor run
\* The loop on one read, one iteration per step. xout records each push with
\* the start of the window it was made for: the position the START branch
\* parsed at, or the window ending at the base the RUN branch consumed.
ExtractInit ==
    /\ xread \in ByteStrings(0, MaxReadLen)
    /\ xpc = "check"
    /\ next_pos = extract_start.next_pos
    /\ start = extract_start.start
    /\ current_kmer = extract_start.current_kmer
    /\ xout = <<>>

\* `if read.len() < KMer::kmer_len() { continue; }`
ExtractCheck ==
    /\ xpc = "check"
    /\ xpc' = IF Len(xread) < KMER_LEN THEN "done" ELSE "loop"
    /\ UNCHANGED <<xread, next_pos, start, current_kmer, xout>>
    /\ UNCHANGED <<codec_vars, seq_vars, dist_vars>>

ExtractIter ==
    /\ xpc = "loop"
    /\ next_pos < Len(xread)
    /\ \E n \in {extract_step(xread, [next_pos |-> next_pos, start |-> start,
                                       current_kmer |-> current_kmer])} :
       LET at == IF start THEN next_pos ELSE next_pos + 1 - KMER_LEN
       IN  /\ next_pos' = n.next_pos
           /\ start' = n.start
           /\ current_kmer' = n.current_kmer
           /\ xout' = IF n.emit = None THEN xout
                      ELSE Append(xout, [at |-> at, data |-> unwrap(n.emit)])
    /\ UNCHANGED <<xread, xpc>>
    /\ UNCHANGED <<codec_vars, seq_vars, dist_vars>>

ExtractExit ==
    /\ xpc = "loop"
    /\ ~(next_pos < Len(xread))
    /\ xpc' = "done"
    /\ UNCHANGED <<xread, next_pos, start, current_kmer, xout>>
    /\ UNCHANGED <<codec_vars, seq_vars, dist_vars>>

ExtractNext == ExtractCheck \/ ExtractIter \/ ExtractExit

\* ------------------------------------------------------ partition by place
\* the two hashes of the drivers' k-mers, tabulated
default_hasher_of == [k \in KMers |-> default_hasher(k)]

mix_of == [k \in KMers |-> mix(k)]

\* get_partition of the variant v on a KMer; None is a panic
get_partition(v, data, ws, checks) ==
    IF v = "root" THEN Some(rem(default_hasher_of[data], ws))
    ELSE IF checks /\ mix_of[data].overflow THEN None
    ELSE Some(rem(mix_of[data].key, ws))

\* `vec![vec![]; place::world_size()]`
empty_buckets(ws) == [d \in 0 .. ws - 1 |-> <<>>]

\* `kmers[get_partition(&k)].push(k.data)` for the k-mers ks in turn; None
\* when get_partition panics
RECURSIVE push_kmers(_, _, _, _, _)
push_kmers(buckets, ks, v, ws, checks) ==
    IF ks = <<>> THEN Some(buckets)
    ELSE LET d == get_partition(v, Head(ks), ws, checks)
         IN  IF d = None THEN None
             ELSE push_kmers([buckets EXCEPT ![unwrap(d)] = Append(@, Head(ks))],
                             Tail(ks), v, ws, checks)

\* ------------------------------------------------------------ sort and scan
RECURSIVE insert_sorted(_, _)
insert_sorted(v, x) ==
    IF v = <<>> THEN <<x>>
    ELSE IF Gt(Head(v), x) THEN <<x>> \o v
    ELSE <<Head(v)>> \o insert_sorted(Tail(v), x)

\* kmers.voracious_sort(): the words in ascending order
RECURSIVE voracious_sort(_)
voracious_sort(v) ==
    IF v = <<>> THEN <<>> ELSE insert_sorted(voracious_sort(Tail(v)), Head(v))

\* `hist[count - 1] += 1` of main.rs (under `if count <= hist_len`) and of
\* main_io.rs (after `while hist.len() < count { hist.push(0) }`)
hist_add(v, h, count) ==
    IF v = "root"
    THEN IF count <= Len(h) THEN [h EXCEPT ![count] = @ + 1] ELSE h
    ELSE LET g == h \o [i \in 1 .. count - Len(h) |-> 0]
         IN  [g EXCEPT ![count] = @ + 1]

\* the for loop over the sorted k-mers from index i, with the loop's
\* variables st = [current, count, hist]
RECURSIVE scan_loop(_, _, _, _)
scan_loop(v, sorted_bin, i, st) ==
    IF i > Len(sorted_bin) THEN st
    ELSE IF st.current # sorted_bin[i]
    THEN scan_loop(v, sorted_bin, i + 1,
                   [current |-> sorted_bin[i], count |-> 1,
                    hist |-> hist_add(v, st.hist, st.count)])
    ELSE scan_loop(v, sorted_bin, i + 1, [st EXCEPT !.count = @ + 1])

\* inner_main from `let mut hist` to its end on the sorted store: the
\* histogram, and what info! prints (None after the early return)
scan(v, sorted_bin) ==
    LET hist0 == [i \in 1 .. HIST_LEN |-> 0]
    IN  IF sorted_bin = <<>> THEN [hist |-> hist0, printed |-> None]
        ELSE LET st == scan_loop(v, sorted_bin, 1,
                                 [current |-> sorted_bin[1], count |-> 0, hist |-> hist0])
             IN  [hist |-> st.hist, printed |-> Some(st.hist)]

\* ----------------------------------------------------------------- drivers
\* Both inner_main functions from the return of the first barrier on, with
\* the activities they spawn.  A place is a number in 0 .. world_size - 1; an
\* activity waiting to run is [kind, dst, arg, fin]: its function, the place
\* it was sent to, its first argument and the place whose finish scope it
\* belongs to.
Places == 0 .. world_size - 1

\* read bodies of an input file: two k-mers for different places, a read
\* shorter than a k-mer, a read with the same k-mer twice and an invalid base
ReadPool == {<<"A", "A", "T">>, <<"A">>, <<"A", "A", "A", "N", "C", "A">>}

\* the k-mers the extractor pushes for a read, tabulated
kmers_of == [r \in ReadPool |-> read_kmers(r)]

\* the k-mers pushed for the reads rs in turn
RECURSIVE reads_kmers(_)
reads_kmers(rs) ==
    IF rs = <<>> THEN <<>> ELSE kmers_of[Head(rs)] \o reads_kmers(Tail(rs))

\* update_kmer sent to the place after the one the bucket is for
update_kmer_tasks_shifted(buckets, ws, fin) ==
    SetToBag({[kind |-> "update_kmer", dst |-> (d + 1) % ws, arg |-> buckets[d],
               fin |-> fin] : d \in 0 .. ws - 1})

\* `for (dst, kmer_list) in kmers.into_iter().enumerate() { ff!(dst, update_kmer(..)) }`
update_kmer_tasks(buckets, ws, fin) ==
    SetToBag({[kind |-> "update_kmer", dst |-> d, arg |-> buckets[d],
               fin |-> fin] : d \in 0 .. ws - 1})

\* a barrier that lets a place through at once
barrier_ready_at_once(pcs) == TRUE

\* collective::barrier() returns once every place has called it
barrier_ready(pcs) == \A q \in DOMAIN pcs : pcs[q] \in {"barrier", "count", "done"}

DistInit ==
    /\ variant \in {"root", "io"}
    /\ world_size \in 1 .. MaxPlaces
    \* main.rs has no arithmetic that can overflow
    /\ overflow_checks \in IF variant = "io" THEN BOOLEAN ELSE {FALSE}
    /\ reads \in UNION {[1 .. n -> ReadPool] : n \in 0 .. MaxReads}
    /\ pc = [p \in Places |-> IF variant = "root" /\ p # 0 THEN "barrier" ELSE "loop"]
    /\ l_num = [p \in Places |-> 0]
    /\ buffer = <<>>
    /\ next_place = 0
    /\ kmers = [p \in Places |-> empty_buckets(world_size)]
    /\ count_bin = [p \in Places |-> <<>>]
    /\ tasks = EmptyBag
    /\ hist = [p \in Places |-> <<>>]
    /\ printed = [p \in Places |-> None]
    /\ sent = <<>>
    /\ proc = <<>>

\* main.rs: one iteration of `for (l_num, line) in lines.enumerate()`
RootIter ==
    /\ variant = "root"
    /\ pc[0] = "loop"
    /\ l_num[0] < Len(reads)
    /\ l_num' = [l_num EXCEPT ![0] = @ + 1]
    /\ IF Len(buffer) = CHUNK_SIZE
       THEN IF world_size = 1
            THEN \* `% (world_size as Place - 1)` divides by zero
                 /\ pc' = [pc EXCEPT ![0] = "panic"]
                 /\ UNCHANGED <<buffer, next_place, tasks, sent>>
            ELSE /\ tasks' = tasks (+) SetToBag({[kind |-> "kmer_counting",
                                                  dst |-> next_place + 1,
                                                  arg |-> buffer, fin |-> 0]})
                 /\ sent' = sent \o [i \in 1 .. Len(buffer) |->
                                        l_num[0] - Len(buffer) + i - 1]
                 /\ next_place' = (next_place + 1) % (world_size - 1)
                 /\ buffer' = <<reads[l_num[0] + 1]>>
                 /\ UNCHANGED pc
       ELSE /\ buffer' = Append(buffer, reads[l_num[0] + 1])
            /\ UNCHANGED <<pc, next_place, tasks, sent>>
    /\ UNCHANGED <<variant, world_size, overflow_checks, reads, kmers, count_bin,
                   hist, printed, proc>>
    /\ UNCHANGED <<codec_vars, extract_vars, seq_vars>>

\* main.rs: the lines are exhausted; the root waits at the end of finish!
RootLoopEnd ==
    /\ variant = "root"
    /\ pc[0] = "loop"
    /\ l_num[0] = Len(reads)
    /\ pc' = [pc EXCEPT ![0] = "finish"]
    /\ UNCHANGED <<variant, world_size, overflow_checks, reads, l_num, buffer,
                   next_place, kmers, count_bin, tasks, hist, printed, sent, proc>>
    /\ UNCHANGED <<codec_vars, extract_vars, seq_vars>>

\* main_io.rs: the end of the loop without the last flush
IoLoopEnd_noflush(p) ==
    /\ variant = "io"
    /\ pc[p] = "loop"
    /\ l_num[p] = Len(reads)
    /\ kmers' = [kmers EXCEPT ![p] = empty_buckets(world_size)]
    /\ pc' = [pc EXCEPT ![p] = "finish"]
    /\ UNCHANGED <<variant, world_size, overflow_checks, reads, l_num, buffer,
                   next_place, count_bin, tasks, hist, printed, sent, proc>>
    /\ UNCHANGED <<codec_vars, extract_vars, seq_vars>>

\* main_io.rs: one iteration of `for (l_num, read) in lines.enumerate()` at
\* place p
IoIter(p) ==
    /\ variant = "io"
    /\ pc[p] = "loop"
    /\ l_num[p] < Len(reads)
    /\ l_num' = [l_num EXCEPT ![p] = @ + 1]
    /\ LET n == l_num[p]
           read == reads[n + 1]
       IN  IF p # n % world_size
           THEN UNCHANGED <<pc, kmers, tasks, proc>>
           ELSE /\ proc' = Append(proc, <<p, n>>)
                /\ IF Len(read) < KMER_LEN
                   THEN UNCHANGED <<pc, kmers, tasks>>
                   ELSE LET b == push_kmers(kmers[p], kmers_of[read], variant,
                                            world_size, overflow_checks)
                        IN  IF b = None
                            THEN /\ pc' = [pc EXCEPT ![p] = "panic"]
                                 /\ UNCHANGED <<kmers, tasks>>
                            ELSE IF (n \div world_size) % CHUNK_SIZE = 0
                            THEN /\ tasks' = tasks (+)
                                       update_kmer_tasks(unwrap(b), world_size, p)
                                 /\ kmers' = [kmers EXCEPT
                                                 ![p] = empty_buckets(world_size)]
                                 /\ UNCHANGED pc
                            ELSE /\ kmers' = [kmers EXCEPT ![p] = unwrap(b)]
                                 /\ UNCHANGED <<pc, tasks>>
    /\ UNCHANGED <<variant, world_size, overflow_checks, reads, buffer, next_place,
                   count_bin, hist, printed, sent>>
    /\ UNCHANGED <<codec_vars, extract_vars, seq_vars>>

\* main_io.rs: the lines are exhausted at place p: the last flush, then p
\* waits at the end of finish!
IoLoopEnd(p) ==
    /\ variant = "io"
    /\ pc[p] = "loop"
    /\ l_num[p] = Len(reads)
    /\ tasks' = tasks (+) update_kmer_tasks(kmers[p], world_size, p)
    /\ kmers' = [kmers EXCEPT ![p] = empty_buckets(world_size)]
    /\ pc' = [pc EXCEPT ![p] = "finish"]
    /\ UNCHANGED <<variant, world_size, overflow_checks, reads, l_num, buffer,
                   next_place, count_bin, hist, printed, sent, proc>>
    /\ UNCHANGED <<codec_vars, extract_vars, seq_vars>>

\* the activity kmer_counting runs at its place
RunKmerCounting(t) ==
    /\ t.kind = "kmer_counting"
    /\ BagIn(t, tasks)
    /\ LET b == push_kmers(empty_buckets(world_size), reads_kmers(t.arg), variant,
                           world_size, overflow_checks)
       IN  tasks' = (tasks (-) SetToBag({t}))
                       (+) update_kmer_tasks(unwrap(b), world_size, t.fin)
    /\ UNCHANGED <<variant, world_size, overflow_checks, reads, pc, l_num, buffer,
                   next_place, kmers, count_bin, hist, printed, sent, proc>>
    /\ UNCHANGED <<codec_vars, extract_vars, seq_vars>>

\* update_kmer that puts its batch in the place of the store
RunUpdateKmer_overwrite(t) ==
    /\ t.kind = "update_kmer"
    /\ BagIn(t, tasks)
    /\ count_bin' = [count_bin EXCEPT ![t.dst] = t.arg]
    /\ tasks' = tasks (-) SetToBag({t})
    /\ UNCHANGED <<variant, world_size, overflow_checks, reads, pc, l_num, buffer,
                   next_place, kmers, hist, printed, sent, proc>>
    /\ UNCHANGED <<codec_vars, extract_vars, seq_vars>>

\* the activity update_kmer runs at its place
RunUpdateKmer(t) ==
    /\ t.kind = "update_kmer"
    /\ BagIn(t, tasks)
    /\ count_bin' = [count_bin EXCEPT ![t.dst] = @ \o t.arg]
    /\ tasks' = tasks (-) SetToBag({t})
    /\ UNCHANGED <<variant, world_size, overflow_checks, reads, pc, l_num, buffer,
                   next_place, kmers, hist, printed, sent, proc>>
    /\ UNCHANGED <<codec_vars, extract_vars, seq_vars>>

\* finish! of place p ends: no activity of its scope is left
FinishExit(p) ==
    /\ pc[p] = "finish"
    /\ \A t \in BagToSet(tasks) : t.fin # p
    /\ pc' = [pc EXCEPT ![p] = "barrier"]
    /\ UNCHANGED <<variant, world_size, overflow_checks, reads, l_num, buffer,
                   next_place, kmers, count_bin, tasks, hist, printed, sent, proc>>
    /\ UNCHANGED <<codec_vars, extract_vars, seq_vars>>

\* the second collective::barrier() returns at place p
BarrierReturn(p) ==
    /\ pc[p] = "barrier"
    /\ barrier_ready(pc)
    /\ pc' = [pc EXCEPT ![p] = "count"]
    /\ UNCHANGED <<variant, world_size, overflow_checks, reads, l_num, buffer,
                   next_place, kmers, count_bin, tasks, hist, printed, sent, proc>>
    /\ UNCHANGED <<codec_vars, extract_vars, seq_vars>>

\* inner_main of place p from the lock of its store to its end
SortScan(p) ==
    /\ pc[p] = "count"
    /\ LET sorted_bin == voracious_sort(count_bin[p])
           r == scan(variant, sorted_bin)
       IN  /\ count_bin' = [count_bin EXCEPT ![p] = sorted_bin]
           /\ hist' = [hist EXCEPT ![p] = r.hist]
           /\ printed' = [printed EXCEPT ![p] = r.printed]
    /\ pc' = [pc EXCEPT ![p] = "done"]
    /\ UNCHANGED <<variant, world_size, overflow_checks, reads, l_num, buffer,
                   next_place, kmers, tasks, sent, proc>>
    /\ UNCHANGED <<codec_vars, extract_vars, seq_vars>>

DistNext ==
    \/ RootIter
    \/ RootLoopEnd
    \/ \E p \in Places : IoIter(p)
    \/ \E p \in Places : IoLoopEnd(p)
    \/ \E t \in BagToSet(tasks) : RunKmerCounting(t)
    \/ \E t \in BagToSet(tasks) : RunUpdateKmer(t)
    \/ \E p \in Places : FinishExit(p)
    \/ \E p \in Places : BarrierReturn(p)
    \/ \E p \in Places : SortScan(p)

\* --------------------------------------------------------------- SeqReader
\* the lines of an input: empty, FASTQ header, FASTA header, separator, and
\* two bodies
LinePool == {<<>>, <<"@", "r">>, <<">", "r">>, <<"+">>, <<"A", "C">>, <<"G">>}

\* a body line is returned whatever skip_q is
seq_line_noskip(skip, line) ==
    IF line # <<>>
    THEN CASE line[1] = "@" -> [skip_q |-> FALSE, ret |-> None]
           [] line[1] = ">" -> [skip_q |-> skip, ret |-> None]
           [] line[1] = "+" -> [skip_q |-> TRUE, ret |-> None]
           [] OTHER -> [skip_q |-> skip, ret |-> Some(line)]
    ELSE [skip_q |-> skip, ret |-> None]

\* One iteration of the loop of next() on the line just taken: the new skip_q
\* and Some(line) when the iteration returns it.
seq_line(skip, line) ==
    IF line # <<>>
    THEN CASE line[1] = "@" -> [skip_q |-> FALSE, ret |-> None]
           [] line[1] = ">" -> [skip_q |-> skip, ret |-> None]
           [] line[1] = "+" -> [skip_q |-> TRUE, ret |-> None]
           [] OTHER -> IF ~skip THEN [skip_q |-> skip, ret |-> Some(line)]
                       ELSE [skip_q |-> skip, ret |-> None]
    ELSE [skip_q |-> skip, ret |-> None]

SeqInit ==
    /\ lines \in UNION {[1 .. n -> LinePool] : n \in 0 .. MaxLines}
    /\ lpos = 0
    /\ spc = "idle"
    /\ skip_q = FALSE
    /\ yielded = <<>>

\* next() is called: `let mut skip_q = false`
SeqCall ==
    /\ spc = "idle"
    /\ spc' = "loop"
    /\ skip_q' = FALSE
    /\ UNCHANGED <<lines, lpos, yielded>>
    /\ UNCHANGED <<codec_vars, extract_vars, dist_vars>>

\* one iteration of the loop that takes a line
SeqLine ==
    /\ spc = "loop"
    /\ lpos < Len(lines)
    /\ LET r == seq_line(skip_q, lines[lpos + 1])
       IN  /\ lpos' = lpos + 1
           /\ skip_q' = r.skip_q
           /\ yielded' = yielded \o r.ret
           /\ spc' = IF r.ret # None THEN "idle" ELSE "loop"
    /\ UNCHANGED lines
    /\ UNCHANGED <<codec_vars, extract_vars, dist_vars>>

\* `self.lines.next()?` on the exhausted stream: next() returns None
SeqEnd ==
    /\ spc = "loop"
    /\ lpos = Len(lines)
    /\ spc' = "end"
    /\ UNCHANGED <<lines, lpos, skip_q, yielded>>
    /\ UNCHANGED <<codec_vars, extract_vars, dist_vars>>

SeqNext == SeqCall \/ SeqLine \/ SeqEnd

\* --------------------------------------------------------------- codec run
\* A k-mer is built by from_bytes (the default k-mer when that returns None)
\* and then taken through the trait's operations.
\* inputs of from_bytes: too short, exactly N bytes (valid or not), and N valid
\* bytes followed by one more byte
CodecInputs(N) ==
    ByteStrings(N - 1, N) \cup {s \o <<b>> : s \in [1 .. N -> Bases], b \in ReadBytes}

CodecInit ==
    /\ kN \in 1 .. MaxCodecLen
    /\ \E s \in CodecInputs(kN) :
          LET r == from_bytes(s, kN)
          IN  /\ km = IF r = None THEN U64_ZERO ELSE unwrap(r)
              /\ kcall = [op |-> "from_bytes", self |-> U64_ZERO, arg |-> s, ret |-> r]

CallExtend(base) ==
    LET r == extend(km, base, kN)
    IN  /\ kcall' = [op |-> "extend", self |-> km, arg |-> <<base>>, ret |-> r]
        /\ km' = IF r = None THEN km ELSE unwrap(r)
        /\ UNCHANGED kN
        /\ UNCHANGED <<extract_vars, seq_vars, dist_vars>>

CallComplement ==
    LET r == complement(km, kN)
    IN  /\ kcall' = [op |-> "complement", self |-> km, arg |-> <<>>, ret |-> Some(r)]
        /\ km' = r
        /\ UNCHANGED kN
        /\ UNCHANGED <<extract_vars, seq_vars, dist_vars>>

CallReverse ==
    LET r == reverse(km, kN)
    IN  /\ kcall' = [op |-> "reverse", self |-> km, arg |-> <<>>, ret |-> Some(r)]
        /\ km' = r
        /\ UNCHANGED kN
        /\ UNCHANGED <<extract_vars, seq_vars, dist_vars>>

CallGetCanonical ==
    LET r == get_canonical(km, kN)
    IN  /\ kcall' = [op |-> "get_canonical", self |-> km, arg |-> <<>>, ret |-> Some(r)]
        /\ km' = r
        /\ UNCHANGED kN
        /\ UNCHANGED <<extract_vars, seq_vars, dist_vars>>

CodecNext ==
    \/ \E base \in ReadBytes : CallExtend(base)
    \/ CallComplement
    \/ CallReverse
    \/ CallGetCanonical

\* ---------------------------------------------------------- specifications
\* Each specification runs one part of the program; the variables of the
\* other parts stay at their idle values.
CodecIdle == kN = 0 /\ km = U64_ZERO /\ kcall = [op |-> "none"]

ExtractIdle ==
    /\ xread = <<>> /\ xpc = "idle" /\ next_pos = 0 /\ start = TRUE
    /\ current_kmer = U64_ZERO /\ xout = <<>>

SeqIdle ==
    /\ lines = <<>> /\ lpos = 0 /\ spc = "none" /\ skip_q = FALSE /\ yielded = <<>>

DistIdle ==
    /\ variant = "none" /\ world_size = 0 /\ overflow_checks = FALSE
    /\ reads = <<>> /\ pc = <<>> /\ l_num = <<>> /\ buffer = <<>>
    /\ next_place = 0 /\ kmers = <<>> /\ count_bin = <<>> /\ tasks = EmptyBag
    /\ hist = <<>> /\ printed = <<>> /\ sent = <<>> /\ proc = <<>>

InitCodec == CodecInit /\ ExtractIdle /\ SeqIdle /\ DistIdle

SpecCodec == InitCodec /\ [][CodecNext]_vars

InitExtract == ExtractInit /\ CodecIdle /\ SeqIdle /\ DistIdle

SpecExtract == InitExtract /\ [][ExtractNext]_vars

\* the loop on a read keeps running until its condition is false
SpecExtractLive == SpecExtract /\ WF_vars(ExtractNext)

InitSeq == SeqInit /\ CodecIdle /\ ExtractIdle /\ DistIdle

InitDist == DistInit /\ CodecIdle /\ ExtractIdle /\ SeqIdle

SpecDist == InitDist /\ [][DistNext]_vars

SpecSeq == InitSeq /\ [][SeqNext]_vars

\* ------------------------------------------------------------ codec claims
\* the other strand of the k-mer a call was made on
call_rc == complement(reverse(kcall.self, kN), kN)

\* a word below 2^30 as a number; its bits 30 and up are clear
word_value(x) == Limb(x, 0) + 65536 * Limb(x, 1)

small_word(x) == Limb(x, 1) < 16384 /\ Limb(x, 2) = 0 /\ Limb(x, 3) = 0

\* C9: get_canonical gives the same word for a k-mer and for its reverse
\* complement.
C9_CanonicalStrandAgnostic ==
    kcall.op = "get_canonical" =>
        kcall.ret = Some(get_canonical(call_rc, kN))

\* get_canonical was called on a k-mer that differs from its reverse
\* complement and kept it
C9_Witness ==
    /\ kcall.op = "get_canonical"
    /\ kN >= 2
    /\ call_rc # kcall.self
    /\ kcall.ret = Some(kcall.self)

\* C10: get_canonical returns the one of km and complement(reverse(km)) that
\* is smaller as an unsigned integer, and km itself when neither is smaller.
C10_CanonicalIsMin ==
    kcall.op = "get_canonical" =>
        /\ small_word(kcall.self) /\ small_word(call_rc)
        /\ kcall.ret = Some(IF word_value(kcall.self) <= word_value(call_rc)
                            THEN kcall.self ELSE call_rc)

\* get_canonical was called on a k-mer whose reverse complement is smaller
C10_Witness ==
    /\ kcall.op = "get_canonical"
    /\ word_value(call_rc) < word_value(kcall.self)
    /\ kcall.ret = Some(call_rc)

\* the bytes of s in the opposite order
reversed(s) == [i \in 1 .. Len(s) |-> s[Len(s) + 1 - i]]

\* C11: reverse reverses the order of the k units: the string of the k-mer
\* that reverse returns is the string of the k-mer it was called on, read
\* backwards.
C11_ReverseReversesUnits ==
    kcall.op = "reverse" =>
        to_string(unwrap(kcall.ret), kN) = reversed(to_string(kcall.self, kN))

\* reverse was called on a k-mer of three bases or more that is no palindrome
\* and has a C or a G, whose unit is not its own mirror image
C11_Witness ==
    /\ kcall.op = "reverse"
    /\ kN >= 3
    /\ kcall.ret # Some(kcall.self)
    /\ \E i \in 1 .. kN : to_string(kcall.self, kN)[i] \in {"C", "G"}

\* the first N bytes of s are bases
valid_prefix(s, N) == Len(s) >= N /\ \A i \in 1 .. N : s[i] \in Bases

\* C12: from_bytes on a byte string that starts with k bases returns a k-mer
\* whose string is these k bases.
C12_RoundTrip ==
    (kcall.op = "from_bytes" /\ valid_prefix(kcall.arg, kN)) =>
        /\ kcall.ret # None
        /\ to_string(unwrap(kcall.ret), kN) = SubSeq(kcall.arg, 1, kN)

\* from_bytes was called on three bases or more, not all the same, followed
\* by a further byte
C12_Witness ==
    /\ kcall.op = "from_bytes"
    /\ kN >= 3
    /\ Len(kcall.arg) > kN
    /\ valid_prefix(kcall.arg, kN)
    /\ \E i, j \in 1 .. kN : kcall.arg[i] # kcall.arg[j]
    /\ kcall.ret # None

\* C13: extend by a base drops the oldest base of the k-mer and makes the
\* base its last one: for bases b0 .. b(k-1) it returns b1 .. b(k-1) b.
C13_ExtendSlidesWindow ==
    (kcall.op = "extend" /\ kcall.arg[1] \in Bases) =>
        /\ kcall.ret # None
        /\ to_string(unwrap(kcall.ret), kN)
             = Tail(to_string(kcall.self, kN)) \o kcall.arg

\* extend by a base returned a k-mer of three bases or more that differs from
\* the one it was called on, whose first base is not its second
C13_Witness ==
    /\ kcall.op = "extend"
    /\ kN >= 3
    /\ kcall.arg[1] \in Bases
    /\ kcall.ret # None
    /\ kcall.ret # Some(kcall.self)
    /\ to_string(kcall.self, kN)[1] # to_string(kcall.self, kN)[2]

\* the base that pairs with a base
base_complement(b) ==
    CASE b = "A" -> "T" [] b = "T" -> "A" [] b = "C" -> "G" [] b = "G" -> "C"

\* C14: complement replaces every base by the base that pairs with it, at
\* the same position; its word is the bitwise NOT of the low 2k bits with the
\* bits above them zero.
C14_ComplementPairsBases ==
    kcall.op = "complement" =>
        LET r == unwrap(kcall.ret)
        IN  /\ \A i \in 1 .. kN :
                  to_string(r, kN)[i] = base_complement(to_string(kcall.self, kN)[i])
            /\ \A i \in BitPos :
                  r[i] = IF i <= UNIT_LEN * kN THEN 1 - kcall.self[i] ELSE 0

\* complement was called on a k-mer with an A or a T and a C or a G
C14_Witness ==
    /\ kcall.op = "complement"
    /\ kN >= 2
    /\ \E i, j \in 1 .. kN :
          /\ to_string(kcall.self, kN)[i] \in {"A", "T"}
          /\ to_string(kcall.self, kN)[j] \in {"C", "G"}

\* the bits of x above the low 2N are zero
packed(x, N) == \A i \in BitPos : i > UNIT_LEN * N => x[i] = 0

\* C15: the k-mer that from_bytes returned, or the default k-mer, and every
\* k-mer made from it by extend, complement, reverse and get_canonical has
\* its high 64 - 2k bits zero.
C15_HighBitsZero ==
    /\ packed(km, kN)
    /\ (kcall.ret # None => packed(unwrap(kcall.ret), kN))

\* extend returned a k-mer whose top used unit is not zero, from a k-mer
\* whose top used unit was not zero either: a base was shifted out
C15_Witness ==
    /\ kcall.op = "extend"
    /\ kcall.ret = Some(km)
    /\ get_unit(Shl(kcall.self, unused_bits(kN)), 0) # 0
    /\ get_unit(Shl(km, unused_bits(kN)), 0) # 0

\* C16: from_bytes returns None exactly when it is given fewer than k bytes
\* or one of the first k bytes is outside the alphabet; extend by a byte
\* outside the alphabet returns None and the k-mer it was called on stays as
\* it was.
C16_InvalidBaseIsNone ==
    /\ kcall.op = "from_bytes" =>
          (kcall.ret = None <=> ~valid_prefix(kcall.arg, kN))
    /\ (kcall.op = "extend" /\ kcall.arg[1] \notin Bases) =>
          (kcall.ret = None /\ km = kcall.self)

\* extend by a byte outside the alphabet returned None on a k-mer that is
\* not the default one
C16_Witness ==
    /\ kcall.op = "extend"
    /\ kcall.arg[1] \notin Bases
    /\ kcall.ret = None
    /\ kcall.self # U64_ZERO
    /\ km = kcall.self

\* ----------------------------------------------------------- driver claims
\* how often w occurs in the sequence v
occurrences(v, w) == Cardinality({i \in DOMAIN v : v[i] = w})

\* the stores of places 0 .. p one after the other
RECURSIVE bins_up_to(_)
bins_up_to(p) == IF p < 0 THEN <<>> ELSE bins_up_to(p - 1) \o count_bin[p]

all_bins == bins_up_to(world_size - 1)

after_loop == {"finish", "barrier", "count", "done"}

after_barrier == {"count", "done"}

\* C2: once a place has scanned its store, hist[c - 1] is the number of
\* distinct words that occur exactly c times in the store, for every c >= 1.
C2_HistCountsEveryRun ==
    \A p \in Places :
        pc[p] = "done" =>
            \A c \in 1 .. Len(count_bin[p]) + Len(hist[p]) :
                (IF c <= Len(hist[p]) THEN hist[p][c] ELSE 0)
                  = Cardinality({w \in {count_bin[p][i] : i \in DOMAIN count_bin[p]} :
                                    occurrences(count_bin[p], w) = c})

\* C3: in the root-dispatch variant, once the root has left its finish
\* scope every read of the input has been dispatched in exactly one chunk.
C3_EveryReadDispatchedOnce ==
    (variant = "root" /\ pc[0] \in {"barrier", "count", "done"}) =>
        \A n \in 0 .. Len(reads) - 1 : occurrences(sent, n) = 1

\* C4: in the I/O-parallel variant a read is taken by the place index mod P
\* and by no other, a place that has left its loop has taken all its reads,
\* and once the second barrier has returned somewhere the stores hold, as a
\* multiset, the k-mers the extractor pushed for all the reads.
C4_IoDeliversEveryKmerOnce ==
    variant = "io" =>
        /\ \A i \in DOMAIN proc : proc[i][1] = proc[i][2] % world_size
        /\ \A i, j \in DOMAIN proc : i # j => proc[i][2] # proc[j][2]
        /\ \A p \in Places :
              pc[p] \in after_loop =>
                  \A n \in 0 .. Len(reads) - 1 :
                      n % world_size = p => \E i \in DOMAIN proc : proc[i] = <<p, n>>
        /\ (\E p \in Places : pc[p] \in after_barrier) =>
              \A w \in KMers :
                  occurrences(all_bins, w) = occurrences(reads_kmers(reads), w)

\* every place of an I/O-parallel run of two places or more has finished,
\* at least three reads were read and two stores hold k-mers
C4_Witness ==
    /\ variant = "io"
    /\ world_size >= 2
    /\ \A p \in Places : pc[p] = "done"
    /\ Len(reads) >= 3
    /\ Len(all_bins) >= 3
    /\ count_bin[0] # <<>>
    /\ count_bin[1] # <<>>

\* C5: no place is past the second barrier while an activity is still to run.
C5_NoCountingBeforeTasksDone ==
    \A p \in Places : pc[p] \in after_barrier => tasks = EmptyBag

\* a place of a root-dispatch run is past the barrier after a chunk was
\* dispatched and its k-mers were stored
C5_Witness ==
    /\ variant = "root"
    /\ sent # <<>>
    /\ \E p \in Places : pc[p] = "count"
    /\ \E q \in Places : count_bin[q] # <<>>

\* C6: every word in the store of place p has partition p, and no word is
\* in the stores of two places.
C6_StoredAtItsPartition ==
    /\ \A p \in Places : \A i \in DOMAIN count_bin[p] :
          get_partition(variant, count_bin[p][i], world_size, overflow_checks) = Some(p)
    /\ \A p, q \in Places :
          p # q => {count_bin[p][i] : i \in DOMAIN count_bin[p]}
                     \cap {count_bin[q][i] : i \in DOMAIN count_bin[q]} = {}

\* the k-mers of one chunk of a root-dispatch run have reached the stores of
\* two places
C6_Witness ==
    /\ variant = "root"
    /\ tasks = EmptyBag
    /\ \E p, q \in Places : p # q /\ count_bin[p] # <<>> /\ count_bin[q] # <<>>

\* C17: no run of equal words is dropped from the histogram: once a place
\* has scanned its store, for every word of the store that is followed by a
\* larger one (the last run is what C2 is about), with c its number of
\* occurrences, hist has length c or more and hist[c - 1] was incremented.
C17_HistGrowsNeverDrops ==
    \A p \in Places :
        pc[p] = "done" =>
            \A i \in DOMAIN count_bin[p] :
                (\E j \in DOMAIN count_bin[p] : Gt(count_bin[p][j], count_bin[p][i])) =>
                    LET c == occurrences(count_bin[p], count_bin[p][i])
                    IN  Len(hist[p]) >= c /\ hist[p][c] >= 1

\* C18: a place whose store is empty after the barrier still prints its
\* histogram, and the histogram it prints is all zeros.
C18_EmptyStorePrintsZeros ==
    \A p \in Places :
        (pc[p] = "done" /\ count_bin[p] = <<>>) =>
            /\ printed[p] # None
            /\ \A i \in DOMAIN unwrap(printed[p]) : unwrap(printed[p])[i] = 0

\* the reads of the input that reach the extractor: all of them in the
\* I/O-parallel variant, the full chunks before the last read in the
\* root-dispatch variant
extracted_reads ==
    IF variant = "io" \/ reads = <<>> THEN reads
    ELSE SubSeq(reads, 1, CHUNK_SIZE * ((Len(reads) - 1) \div CHUNK_SIZE))

\* the words of place p among the k-mers of these reads, in the order of the
\* input
words_for(p) ==
    SelectSeq(reads_kmers(extracted_reads),
              LAMBDA w : get_partition(variant, w, world_size, overflow_checks) = Some(p))

\* C19: whatever the order in which the update_kmer activities ran, after the
\* barrier the store of a place holds, as a multiset, the words of that place
\* among the k-mers extracted from the input, and the histogram the place
\* computes is the one of these words.
C19_StoreIndependentOfOrder ==
    \A p \in Places :
        /\ pc[p] \in after_barrier =>
              \A w \in KMers : occurrences(count_bin[p], w) = occurrences(words_for(p), w)
        /\ pc[p] = "done" =>
              hist[p] = scan(variant, voracious_sort(words_for(p))).hist

\* a place is past the barrier with a store of two words or more that came
\* in another order than the order of the input
C19_Witness ==
    \E p \in Places :
        /\ pc[p] = "count"
        /\ Len(count_bin[p]) >= 2
        /\ count_bin[p] # words_for(p)

\* C20: in the I/O-parallel variant a place that has just gone through one
\* of its own reads whose index is at a chunk boundary has flushed: its
\* buckets are empty, whatever the read was.
C20_FlushAtEveryBoundary ==
    variant = "io" =>
        \A p \in Places :
            (/\ pc[p] = "loop"
             /\ l_num[p] >= 1
             /\ (l_num[p] - 1) % world_size = p
             /\ ((l_num[p] - 1) \div world_size) % CHUNK_SIZE = 0) =>
                kmers[p] = empty_buckets(world_size)

\* C21: in the root-dispatch variant, whatever the number of places, the
\* root never fails when it computes the place of the next chunk, and every
\* chunk waiting to be counted was sent to one of the places 0 .. P - 1.
C21_DispatchNeverFails ==
    variant = "root" =>
        /\ pc[0] # "panic"
        /\ \A t \in BagToSet(tasks) : t.kind = "kmer_counting" => t.dst \in Places

\* C23: in the I/O-parallel variant, whatever the k-mer word and the number of
\* places, get_partition goes through its seven mixing steps without an
\* arithmetic-overflow failure: no place fails while it puts the k-mers of a
\* read into its buckets, and every word in bucket d of a place has the mixed
\* value (additions and shifts modulo 2^64) mod P equal to d, a place in
\* 0 .. P - 1.
C23_MixPartitionTotalInRange ==
    variant = "io" =>
        /\ \A p \in Places : pc[p] # "panic"
        /\ \A p \in Places : \A d \in DOMAIN kmers[p] :
              /\ d \in Places
              /\ \A i \in DOMAIN kmers[p][d] :
                    rem(mix_of[kmers[p][d][i]].key, world_size) = d

\* -------------------------------------------------------- SeqReader claims
\* The iterator with one flag skip_next kept for the whole stream: the flag
\* and the bodies yielded after the lines ls, starting from flag and out.
RECURSIVE persistent_reader(_, _, _)
persistent_reader(ls, skip_next, out) ==
    IF ls = <<>> THEN [skip_next |-> skip_next, out |-> out]
    ELSE LET line == Head(ls)
         IN  IF line = <<>> THEN persistent_reader(Tail(ls), skip_next, out)
             ELSE IF line[1] = "@" THEN persistent_reader(Tail(ls), FALSE, out)
             ELSE IF line[1] = ">" THEN persistent_reader(Tail(ls), skip_next, out)
             ELSE IF line[1] = "+" THEN persistent_reader(Tail(ls), TRUE, out)
             ELSE IF skip_next THEN persistent_reader(Tail(ls), skip_next, out)
             ELSE persistent_reader(Tail(ls), skip_next, Append(out, line))

\* C7: the SeqReader, whose flag is set afresh by every call of next(), has
\* yielded after any number of lines what the iterator with one persistent
\* flag yields on those lines, its flag agrees with the persistent one
\* inside a call, and it ends only when the stream is exhausted.
C7_SeqReaderIsPersistentMachine ==
    LET ref == persistent_reader(SubSeq(lines, 1, lpos), FALSE, <<>>)
    IN  /\ yielded = ref.out
        /\ spc = "loop" => skip_q = ref.skip_next
        /\ spc = "idle" => ~ref.skip_next
        /\ spc = "end" => lpos = Len(lines)

\* the stream is exhausted, a first call yielded a body, and a later call
\* set its flag at a separator and skipped a body line
C7_Witness ==
    /\ spc = "end"
    /\ \E j, k \in DOMAIN lines :
          /\ j < k
          /\ lines[j] = <<"+">>
          /\ lines[k] = <<"G">>
          /\ Len(persistent_reader(SubSeq(lines, 1, j), FALSE, <<>>).out) >= 1
          /\ Len(persistent_reader(SubSeq(lines, 1, k), FALSE, <<>>).out)
               = Len(persistent_reader(SubSeq(lines, 1, k - 1), FALSE, <<>>).out)
    /\ Len(yielded) >= 1

\* -------------------------------------------------------- extractor claims
\* the window of the read that starts at position p (0-based)
window(read, p) == SubSeq(read, p + 1, p + KMER_LEN)

\* the start positions of the windows made of valid bases only
valid_starts(read) ==
    {p \in 0 .. Len(read) - KMER_LEN : \A j \in 1 .. KMER_LEN : read[p + j] \in Bases}

\* C1: each k-mer pushed is the canonical form of the window it was pushed
\* for, and between iterations of the RUN branch current_kmer is the k-mer,
\* not canonicalised, of the last k bases read.
C1_EmitsCanonicalOfWindow ==
    /\ \A i \in DOMAIN xout :
          /\ xout[i].at \in valid_starts(xread)
          /\ xout[i].data =
                get_canonical(unwrap(from_bytes(window(xread, xout[i].at), KMER_LEN)),
                              KMER_LEN)
    /\ (xpc = "loop" /\ ~start) =>
          Some(current_kmer) = from_bytes(window(xread, next_pos - KMER_LEN), KMER_LEN)

\* C8: the extractor pushes one k-mer for each window of valid bases, in
\* the order of the windows, and nothing else; while the loop runs it has
\* pushed the windows it has passed.
C8_OneEmissionPerValidWindow ==
    LET passed == IF xpc = "done" THEN Len(xread)
                  ELSE IF start THEN next_pos ELSE next_pos + 1 - KMER_LEN
    IN  /\ {xout[i].at : i \in DOMAIN xout} = {p \in valid_starts(xread) : p < passed}
        /\ \A i, j \in DOMAIN xout : i < j => xout[i].at < xout[j].at

\* a finished read with an invalid base, a k-mer pushed before it and one
\* pushed after it
C8_Witness ==
    /\ xpc = "done"
    /\ \E b \in DOMAIN xread, i, j \in DOMAIN xout :
          /\ xread[b] \notin Bases
          /\ xout[i].at + KMER_LEN < b
          /\ xout[j].at + 1 > b

\* C22: the loop on a read ends: every iteration, in the START branch and in
\* the RUN branch, moves the position forward, the position never passes the
\* end of the read, an iteration in START with fewer than k bases left
\* pushes nothing, and the loop is left in the end.
C22_ExtractorTerminates ==
    /\ [][(xpc = "loop" /\ xpc' = "loop") => next_pos' > next_pos]_vars
    /\ [](next_pos <= Len(xread))
    /\ [][(start /\ Len(xread) - next_pos < KMER_LEN) => xout' = xout]_vars
    /\ <>(xpc = "done")

\* the loop was left in START after a k-mer was pushed, with an invalid base
\* followed by fewer than k bases at the end of the read
C22_Witness ==
    /\ xpc = "done"
    /\ start
    /\ xout # <<>>
    /\ \E b \in DOMAIN xread :
          /\ xread[b] \notin Bases
          /\ b < Len(xread)
          /\ Len(xread) - b < KMER_LEN
====
